---- MODULE Spec2Model ----
(***************************************************************************)
(* RegexWiz: the match-highlighting segmenter (MatchHighlighter.parts) and  *)
(* the App component that feeds it (its editable fields, its match count   *)
(* and validity memo, handleGenerate, the background music setting), and   *)
(* the playlist store (addTrack, getPlaylistMetadata, getTrackBlob,        *)
(* deleteTrack).                                                           *)
(*                                                                         *)
(* Strings are sequences of UTF-16 code units, each unit a one-letter      *)
(* TLA+ string.  "HI" and "LO" stand for the lead and the trail surrogate  *)
(* of one astral character (U+1F4A9 is <<"HI", "LO">>).  Positions are     *)
(* 0-based as in JavaScript: position i lies before unit t[i + 1].         *)
(*                                                                         *)
(* The platform's RegExp is modelled for the pattern syntax                *)
(*     a  .  ^  $  *  +  |  ( )                                            *)
(* by a parser (new RegExp) and a backtracking matcher (exec) that follow  *)
(* ECMA-262: alternatives are tried left to right, quantifiers are greedy, *)
(* an iteration of * that matches the empty string is rejected.            *)
(***************************************************************************)
EXTENDS Integers, Sequences, FiniteSets, Bags, TLC

VARIABLES
    text, regexPattern, flags,   \* the props of MatchHighlighter (the memo's dependencies)
    pc,                          \* "render": parts is to be computed; "loop": inside the
                                 \* while loop; "done": parts is computed
    branch,                      \* the return statement the last computation of parts took
    safeFlags,                   \* const safeFlags
    regex,                       \* const regex: its source, flags and lastIndex
    lastIndex,                   \* let lastIndex
    result,                      \* const result while in the loop, then the value of parts
    iters,                       \* the number of loop bodies run by this computation
    matchCount, isRegexValid,    \* App: the memo over [manualRegex, manualFlags, inputData]
    userPrompt,                  \* App: the prompt field
    loading, error, regexResult, \* App: the state handleGenerate writes
    pending,                     \* generateRegexFromPrompt calls awaited by a handleGenerate
    apiKey,                      \* process.env.API_KEY is set
    thrown,                      \* the last error generateRegexFromPrompt threw, and its cause
    noted,                       \* a result seen earlier, with the props it was computed for
    tracks,                      \* playlist store: the records of object store 'playlist'
                                 \* as committed transactions left them
    issued,                      \* playlist store: the ids crypto.randomUUID has returned
    history,                     \* playlist store: the completed addTrack and deleteTrack calls
    queue,                       \* playlist store: the readwrite transactions created and
                                 \* not yet run, in the order of their creation
    committing,                  \* playlist store: the transaction whose request has
                                 \* succeeded and which has neither completed nor aborted
    musicSrc, uploadError,       \* App: the music source and the settings dialog's error
    isMusicPlaying, audioError,  \* App: the audio element's state as App tracks it
    storageOk,                   \* localStorage can be accessed (no SecurityError)
    stored,                      \* localStorage: the item under STORAGE_KEY
    readers,                     \* FileReaders started by handleFileUpload, not yet done,
                                 \* each with the isMusicPlaying its callbacks closed over
                                 \* (a bag: two readers may read equal files)
    plays,                       \* promises of audio.play() that toggleMusic waits for
    isSettingsOpen               \* App: the settings dialog is shown

\* In App, text is inputData, regexPattern is manualRegex and flags is manualFlags:
\* App passes the three to MatchHighlighter as they are.
hlVars == <<pc, branch, safeFlags, regex, lastIndex, result, iters, matchCount, isRegexValid>>

genVars == <<userPrompt, loading, error, regexResult, pending, apiKey, thrown>>

storeVars == <<tracks, issued, history, queue, committing>>

musicVars ==
    <<musicSrc, uploadError, isMusicPlaying, audioError, storageOk, stored, readers, plays,
      isSettingsOpen>>

vars == <<text, regexPattern, flags, hlVars, genVars, noted, storeVars, musicVars>>

----------------------------------------------------------------------------
(* Bounds and input sets *)

MaxTextLen == 3

\* The loop is followed for at most this many iterations; a loop that ends
\* runs its body at most Len(text) + 1 times.
IterCap == MaxTextLen + 3

TextUnits == {"a", "\n", "HI", "LO"}

RECURSIVE SeqsUpTo(_, _)
SeqsUpTo(S, n) ==
    IF n = 0 THEN {<<>>}
    ELSE LET shorter == SeqsUpTo(S, n - 1)
         IN shorter \cup {Append(s, x) : s \in {q \in shorter : Len(q) = n - 1}, x \in S}

Texts == SeqsUpTo(TextUnits, MaxTextLen)

Patterns ==
    { <<>>,
      <<"a">>, <<".">>, <<"^">>, <<"$">>,
      <<"a", "*">>, <<".", "*">>, <<"a", "+">>, <<"a", "|">>, <<"^", "a">>, <<"a", "$">>,
      <<"(", "a", ")">>, <<"(", ")">>, <<"(", "a", ")", "*">>, <<".", "(", "a", ")">>,
      <<"(">>, <<")">>, <<"*">>, <<"a", "*", "*">>, <<"^", "*">>, <<"(", "a">> }

FlagStrings ==
    { <<>>, <<"g">>, <<"g", "m">>, <<"m">>, <<"y">>, <<"u">>, <<"g", "u">>, <<"s">>,
      <<"g", "g">>, <<"x">>, <<"u", "v">>, <<"m", "m">> }

----------------------------------------------------------------------------
(* String helpers *)

\* String.prototype.slice(from, to) for 0 <= from <= to <= length
Slice(t, from, to) == SubSeq(t, from + 1, to)

\* String.prototype.includes for a one-unit needle
Includes(s, c) == \E k \in 1..Len(s) : s[k] = c

----------------------------------------------------------------------------
(* new RegExp(pattern, flags): flags *)

FlagLetters == {"d", "g", "i", "m", "s", "u", "v", "y"}

\* The flags string is accepted: known letters only, none twice, not both u and v.
FlagsValid(f) ==
    /\ \A k \in 1..Len(f) : f[k] \in FlagLetters
    /\ \A j, k \in 1..Len(f) : j # k => f[j] # f[k]
    /\ ~(Includes(f, "u") /\ Includes(f, "v"))

FullUnicode(f) == Includes(f, "u") \/ Includes(f, "v")

----------------------------------------------------------------------------
(* new RegExp(pattern, flags): the pattern parser *)

Quantifiers == {"*", "+"}

PatTok(p, i) == IF i <= Len(p) THEN p[i] ELSE "EOF"

ParseFail == [ok |-> FALSE, node |-> [t |-> "empty"], pos |-> 0]

ParseOk(n, i) == [ok |-> TRUE, node |-> n, pos |-> i]

\* Atom Quantifier?  (a quantifier directly after the atom at position i)
Quantified(p, n, i) ==
    IF PatTok(p, i) = "*" THEN ParseOk([t |-> "star", body |-> n], i + 1)
    ELSE IF PatTok(p, i) = "+"
         THEN ParseOk([t |-> "seq", l |-> n, r |-> [t |-> "star", body |-> n]], i + 1)
         ELSE ParseOk(n, i)

RECURSIVE ParseDisjunction(_, _), ParseAlternative(_, _), ParseTerm(_, _)

\* Term :: Assertion | Atom | Atom Quantifier
ParseTerm(p, i) ==
    LET c == PatTok(p, i) IN
    IF c \in {"^", "$"}
    THEN IF PatTok(p, i + 1) \in Quantifiers
         THEN ParseFail    \* nothing to repeat: an assertion takes no quantifier
         ELSE ParseOk([t |-> IF c = "^" THEN "bol" ELSE "eol"], i + 1)
    ELSE IF c = "("
    THEN LET d == ParseDisjunction(p, i + 1) IN
         IF d.ok /\ PatTok(p, d.pos) = ")"
         THEN Quantified(p, d.node, d.pos + 1)
         ELSE ParseFail    \* unterminated group
    ELSE IF c = "."
    THEN Quantified(p, [t |-> "any"], i + 1)
    ELSE IF c \in Quantifiers \/ c \in {")", "|", "EOF"}
    THEN ParseFail         \* nothing to repeat
    ELSE Quantified(p, [t |-> "char", c |-> c], i + 1)

\* Alternative :: [empty] | Alternative Term
ParseAlternative(p, i) ==
    IF PatTok(p, i) \in {"|", ")", "EOF"}
    THEN ParseOk([t |-> "empty"], i)
    ELSE LET a == ParseTerm(p, i) IN
         IF ~a.ok THEN ParseFail
         ELSE LET b == ParseAlternative(p, a.pos) IN
              IF ~b.ok THEN ParseFail
              ELSE ParseOk([t |-> "seq", l |-> a.node, r |-> b.node], b.pos)

\* Disjunction :: Alternative | Alternative "|" Disjunction
ParseDisjunction(p, i) ==
    LET a == ParseAlternative(p, i) IN
    IF ~a.ok THEN ParseFail
    ELSE IF PatTok(p, a.pos) = "|"
         THEN LET d == ParseDisjunction(p, a.pos + 1) IN
              IF ~d.ok THEN ParseFail
              ELSE ParseOk([t |-> "alt", l |-> a.node, r |-> d.node], d.pos)
         ELSE a

\* Pattern :: Disjunction, the whole source consumed (a stray ")" is an error)
ParsePattern(p) ==
    LET d == ParseDisjunction(p, 1) IN
    IF d.ok /\ d.pos = Len(p) + 1 THEN d ELSE ParseFail

\* new RegExp(p, f) returns (TRUE) or throws SyntaxError (FALSE)
Compiles(p, f) == FlagsValid(f) /\ ParsePattern(p).ok

----------------------------------------------------------------------------
(* RegExp.prototype.exec: the matcher *)

\* The unit at position i starts a surrogate pair.
PairAt(t, i) == i + 2 <= Len(t) /\ t[i + 1] = "HI" /\ t[i + 2] = "LO"

\* Code units of the character at position i.
CharLen(t, i, f) == IF FullUnicode(f) /\ PairAt(t, i) THEN 2 ELSE 1

RECURSIVE Ends(_, _, _, _), EndsAfter(_, _, _, _)

\* The end positions of the matches of node n at position i, in the
\* matcher's order of preference; the head is the match exec reports.
\* RepeatMatcher rejects an iteration of * that consumed nothing (e > i).
Ends(n, t, i, f) ==
    CASE n.t = "empty" -> <<i>>
      [] n.t = "char"  -> IF i < Len(t) /\ t[i + 1] = n.c THEN <<i + 1>> ELSE <<>>
      [] n.t = "any"   -> IF i < Len(t) /\ (t[i + 1] # "\n" \/ Includes(f, "s"))
                          THEN <<i + CharLen(t, i, f)>> ELSE <<>>
      [] n.t = "bol"   -> IF i = 0 \/ (Includes(f, "m") /\ t[i] = "\n")
                          THEN <<i>> ELSE <<>>
      [] n.t = "eol"   -> IF i = Len(t) \/ (Includes(f, "m") /\ t[i + 1] = "\n")
                          THEN <<i>> ELSE <<>>
      [] n.t = "seq"   -> EndsAfter(n.r, t, Ends(n.l, t, i, f), f)
      [] n.t = "alt"   -> Ends(n.l, t, i, f) \o Ends(n.r, t, i, f)
      [] n.t = "star"  -> EndsAfter(n, t, SelectSeq(Ends(n.body, t, i, f), LAMBDA e : e > i), f)
                          \o <<i>>

\* Continue with node n from each of the positions es, in order.
EndsAfter(n, t, es, f) ==
    IF es = <<>> THEN <<>>
    ELSE Ends(n, t, Head(es), f) \o EndsAfter(n, t, Tail(es), f)

\* AdvanceStringIndex(S, index, fullUnicode)
AdvanceStringIndex(t, i, f) == IF i + 1 >= Len(t) THEN i + 1 ELSE i + CharLen(t, i, f)

\* The position the matcher starts from for lastIndex li: in unicode mode the
\* input is a list of code points, and a lastIndex between the two halves of
\* a surrogate pair designates the character that starts one unit earlier
\* (ECMA-262 RegExpBuiltinExec, "the character that was obtained from element
\* lastIndex of S").  The match is reported from that start, as V8 does.
InputIndex(t, li, f) ==
    IF FullUnicode(f) /\ li >= 1 /\ PairAt(t, li - 1) THEN li - 1 ELSE li

NoMatch == [found |-> FALSE, index |-> 0, end |-> 0]

RECURSIVE RegExpBuiltinExec(_, _, _, _)

\* RegExpBuiltinExec for a global regex: the first match at or after li, with
\* the match's start and end; sticky (y) tries position li only.
RegExpBuiltinExec(ast, t, f, li) ==
    IF li > Len(t) THEN NoMatch
    ELSE LET start == InputIndex(t, li, f)
             es    == Ends(ast, t, start, f)
         IN IF es # <<>> THEN [found |-> TRUE, index |-> start, end |-> Head(es)]
            ELSE IF Includes(f, "y") THEN NoMatch
            ELSE RegExpBuiltinExec(ast, t, f, AdvanceStringIndex(t, li, f))

\* The element of a one-element set.  {F(m) : m \in {e}} is F(e) with e
\* evaluated once.
TheOnly(S) == CHOOSE r \in S : TRUE

\* exec reads and writes regex.lastIndex only when the regex is global or sticky.
UsesLastIndex(f) == Includes(f, "g") \/ Includes(f, "y")

\* regex.exec(text): the match (or null) for the regex object re, and the
\* value exec leaves in re.lastIndex.
Exec(t, re) ==
    TheOnly({ [found |-> m.found, index |-> m.index, end |-> m.end,
               lastIndex |-> IF UsesLastIndex(re.flags) THEN m.end ELSE re.lastIndex] :
              m \in { IF UsesLastIndex(re.flags)
                      THEN RegExpBuiltinExec(ParsePattern(re.source).node, t, re.flags,
                                             re.lastIndex)
                      ELSE RegExpBuiltinExec(ParsePattern(re.source).node, t, re.flags, 0) } })

\* match[0]: the substring the whole pattern consumed
MatchZero(t, m) == Slice(t, m.index, m.end)

----------------------------------------------------------------------------
(* MatchHighlighter.parts *)

UnmatchedSpan(c) == [content |-> c, isMatch |-> FALSE]

MatchedSpan(c, i) == [content |-> c, isMatch |-> TRUE, index |-> i]

\* The value of a property the object does not have.  It is kept apart from
\* every string: no pattern unit is called "undefined".
Undefined == <<"undefined">>

\* !s for a string or undefined
Falsy(s) == s = <<>> \/ s = Undefined

\* (mutants: the two guards swapped; the pattern guard missing)
EarlyReturnSwapped(t, p) ==
    IF Falsy(p)
    THEN [returns |-> TRUE, branch |-> "emptyPattern", value |-> <<UnmatchedSpan(t)>>]
    ELSE IF t = <<>> THEN [returns |-> TRUE, branch |-> "emptyText", value |-> <<>>]
         ELSE [returns |-> FALSE, branch |-> "none", value |-> <<>>]

EarlyReturnTextOnly(t, p) ==
    IF t = <<>> THEN [returns |-> TRUE, branch |-> "emptyText", value |-> <<>>]
    ELSE [returns |-> FALSE, branch |-> "none", value |-> <<>>]

\* if (!text) return [];  if (!regexPattern) return [{content: text, isMatch: false}];
EarlyReturn(t, p) ==
    IF t = <<>> THEN [returns |-> TRUE, branch |-> "emptyText", value |-> <<>>]
    ELSE IF Falsy(p)
         THEN [returns |-> TRUE, branch |-> "emptyPattern", value |-> <<UnmatchedSpan(t)>>]
         ELSE [returns |-> FALSE, branch |-> "none", value |-> <<>>]

\* (mutant: the flags used as given)
SafeFlagsVerbatim(f) == f

\* (mutant: 'g' appended without looking)
SafeFlagsAlwaysAppend(f) == Append(f, "g")

\* const safeFlags = flags.includes('g') ? flags : flags + 'g';
SafeFlags(f) == IF Includes(f, "g") THEN f ELSE Append(f, "g")

\* (mutant: the catch returns nothing)
CatchResultEmpty(t) == <<>>

\* catch (e) { return [{ content: text, isMatch: false }]; }
CatchResult(t) == <<UnmatchedSpan(t)>>

\* (mutant: >= for >)
PreMatchSpansAlways(t, li, m) ==
    IF m.index >= li THEN <<UnmatchedSpan(Slice(t, li, m.index))>> ELSE <<>>

\* if (match.index > lastIndex) result.push({content: text.slice(lastIndex, match.index), ...})
PreMatchSpans(t, li, m) ==
    IF m.index > li THEN <<UnmatchedSpan(Slice(t, li, m.index))>> ELSE <<>>

\* (mutant: the offset taken after the match instead of before it)
MatchSpansEndOffset(t, m) == <<MatchedSpan(MatchZero(t, m), m.end)>>

\* result.push({ content: match[0], isMatch: true, index: match.index })
MatchSpans(t, m) == <<MatchedSpan(MatchZero(t, m), m.index)>>

\* (mutant: lastIndex read after the zero-width guard has moved the cursor)
ConsumedUpToAfterGuard(m) ==
    IF m.index = m.lastIndex THEN m.lastIndex + 1 ELSE m.lastIndex

\* lastIndex = regex.lastIndex  (exec has set regex.lastIndex to the match's end)
ConsumedUpTo(m) == m.lastIndex

\* (mutant: no guard, the cursor stays where exec left it)
GuardedCursorNoGuard(m) == m.lastIndex

\* if (match.index === regex.lastIndex) regex.lastIndex++
GuardedCursor(m) == IF m.index = m.lastIndex THEN m.lastIndex + 1 ELSE m.lastIndex

\* (mutant: the rest pushed unconditionally)
RemainingSpansAlways(t, li) == <<UnmatchedSpan(Slice(t, li, Len(t)))>>

\* if (lastIndex < text.length) result.push({content: text.slice(lastIndex), ...})
RemainingSpans(t, li) ==
    IF li < Len(t) THEN <<UnmatchedSpan(Slice(t, li, Len(t)))>> ELSE <<>>

NoRegex == [source |-> <<>>, flags |-> <<>>, lastIndex |-> 0]

\* (mutant: the cursor of the previous call is kept)
StaleLastIndex == lastIndex

\* let lastIndex = 0  (a local of the memo callback, new in every call)
FreshLastIndex == 0

RECURSIVE SegmentLoop(_, _, _, _, _)

\* The while loop as a function: from the regex object re, the cursor li and
\* the spans res pushed so far, followed for at most fuel loop bodies.
SegmentLoop(t, re, li, res, fuel) ==
    LET match == Exec(t, re) IN
    IF ~match.found THEN [complete |-> TRUE, value |-> res \o RemainingSpans(t, li)]
    ELSE IF fuel = 0 THEN [complete |-> FALSE, value |-> res]
    ELSE SegmentLoop(t, [re EXCEPT !.lastIndex = GuardedCursor(match)], ConsumedUpTo(match),
                     res \o PreMatchSpans(t, li, match) \o MatchSpans(t, match), fuel - 1)

\* The memo callback of parts as a function of (text, regexPattern, flags):
\* the value it returns, or the spans pushed when the fuel ran out.
Segment(t, p, f) ==
    IF EarlyReturn(t, p).returns THEN [complete |-> TRUE, value |-> EarlyReturn(t, p).value]
    ELSE IF Compiles(p, SafeFlags(f))
         THEN SegmentLoop(t, [source |-> p, flags |-> SafeFlags(f), lastIndex |-> 0],
                          FreshLastIndex, <<>>, IterCap)
         ELSE [complete |-> TRUE, value |-> CatchResult(t)]

\* (mutant: flags left out of the dependency list)
MemoDepsNoFlags(t, p, f) == <<t, p>>

\* The memo's dependency list: [text, regexPattern, flags]
MemoDeps(t, p, f) == <<t, p, f>>

----------------------------------------------------------------------------
(* App: matchCount and isRegexValid *)

\* (mutant: 'g' appended without looking)
AppSafeFlagsAlwaysAppend(f) == Append(f, "g")

\* const safeFlags = manualFlags.includes('g') ? manualFlags : manualFlags + 'g';
AppSafeFlags(f) == IF Includes(f, "g") THEN f ELSE Append(f, "g")

RECURSIVE RegExpMatchAll(_, _, _, _)

\* inputData.match(re) for a global re, from lastIndex li: the number of
\* matches.  After an empty match the search moves on by AdvanceStringIndex.
RegExpMatchAll(ast, t, f, li) ==
    TheOnly({ IF ~m.found THEN 0
              ELSE 1 + RegExpMatchAll(ast, t, f,
                                      IF m.end = m.index THEN AdvanceStringIndex(t, m.end, f)
                                      ELSE m.end) :
              m \in {RegExpBuiltinExec(ast, t, f, li)} })

\* const { matchCount, isRegexValid } = useMemo(...)
AppMemo(t, p, f) ==
    IF Falsy(p) THEN [matchCount |-> 0, isRegexValid |-> TRUE]
    ELSE IF Compiles(p, AppSafeFlags(f))
         THEN [matchCount |-> RegExpMatchAll(ParsePattern(p).node, t, AppSafeFlags(f), 0),
               isRegexValid |-> TRUE]
         ELSE [matchCount |-> 0, isRegexValid |-> FALSE]

----------------------------------------------------------------------------
(* App: handleGenerate and generateRegexFromPrompt *)

NullError == "null"

ProvideBothMsg == "Please provide both data and a prompt."

ApiKeyMsg == "API Key is missing"

GenerationFailedMsg == "Failed to generate regex. Please try again."

\* regexResult === null
NoResult == [null |-> TRUE]

NothingThrown == [cause |-> "none", message |-> ""]

NothingNoted == [set |-> FALSE]

\* White space for String.prototype.trim, among the units of the model.
IsSpace(u) == u \in {" ", "\n"}

RECURSIVE TrimStart(_), TrimEnd(_)

TrimStart(s) == IF s # <<>> /\ IsSpace(Head(s)) THEN TrimStart(Tail(s)) ELSE s

TrimEnd(s) == IF s # <<>> /\ IsSpace(s[Len(s)]) THEN TrimEnd(SubSeq(s, 1, Len(s) - 1)) ELSE s

\* (mutant: nothing trimmed)
TrimIdentity(s) == s

\* s.trim()
Trim(s) == TrimEnd(TrimStart(s))

\* The ways generateRegexFromPrompt fails once the request is sent: the
\* remote call rejects, response.text is empty, JSON.parse throws.
RemoteFailures == {"callFailed", "emptyResponse", "unparsable"}

\* The message of the error raised inside the try block (for a rejected call
\* and for JSON.parse, the cause's name stands for the library's message).
InnerError(cause) == IF cause = "emptyResponse" THEN "No response from AI" ELSE cause

\* (mutant: the catch rethrows the error it caught)
GenerateErrorRethrow(cause) ==
    IF cause = "missingApiKey" THEN ApiKeyMsg ELSE InnerError(cause)

\* The message of the error generateRegexFromPrompt throws to its caller:
\* the API key check is outside the try block, everything else is caught
\* and replaced.
GenerateError(cause) ==
    IF cause = "missingApiKey" THEN ApiKeyMsg ELSE GenerationFailedMsg

\* err.message || "Something went wrong."
AppErrorMessage(msg) == IF msg = "" THEN "Something went wrong." ELSE msg

\* r.name for an object r parsed from JSON: undefined when r has no such property.
Field(r, name) == IF name \in DOMAIN r THEN r[name] ELSE Undefined

\* What JSON.parse returns for a response that follows responseSchema:
\* an object with the properties regex, flags and explanation.
Responses ==
    { [regex |-> <<"a">>, flags |-> <<"g">>, explanation |-> <<"e">>],
      [regex |-> <<"^">>, flags |-> <<"m">>, explanation |-> <<"e">>] }

----------------------------------------------------------------------------
(* The playlist store and the music setting: their values at rest *)

\* No readwrite transaction is between its request's success and its end.
NoTransaction == [idle |-> TRUE]

\* The object store as onupgradeneeded creates it: no record, no id issued,
\* no transaction created.
StoreEmpty ==
    /\ tracks = {}
    /\ issued = {}
    /\ history = <<>>
    /\ queue = <<>>
    /\ committing = NoTransaction

\* const DEFAULT_MUSIC_URL = "/bnova.mp3"
DefaultMusicUrl == "/bnova.mp3"

\* localStorage.getItem(STORAGE_KEY) === null
NoItem == "null"

\* uploadError === null
NoUploadError == "null"

\* App with nothing stored under STORAGE_KEY and no upload made.
MusicDefault ==
    /\ musicSrc = DefaultMusicUrl
    /\ uploadError = NoUploadError
    /\ isMusicPlaying = FALSE
    /\ audioError = FALSE
    /\ storageOk = TRUE
    /\ stored = NoItem
    /\ readers = EmptyBag
    /\ plays = 0
    /\ isSettingsOpen = FALSE

----------------------------------------------------------------------------
(* MatchHighlighter mounted on its own *)

\* useState("Extract timestamps and log levels"): the initial prompt, a
\* non-blank string, in the units of the model.
InitialPrompt == <<"p">>

\* The values the App-side variables have when App has done nothing yet.
AppIdle ==
    /\ userPrompt = InitialPrompt
    /\ loading = FALSE
    /\ error = NullError
    /\ regexResult = NoResult
    /\ pending = 0
    /\ apiKey = TRUE
    /\ thrown = NothingThrown
    /\ noted = NothingNoted
    /\ StoreEmpty
    /\ MusicDefault

\* The component is mounted with its props; nothing is computed yet.
Init ==
    /\ text \in Texts
    /\ regexPattern \in Patterns
    /\ flags \in FlagStrings
    /\ pc = "render"
    /\ branch = "none"
    /\ safeFlags = <<>>
    /\ regex = NoRegex
    /\ lastIndex = 0
    /\ result = <<>>
    /\ iters = 0
    /\ matchCount = 0
    /\ isRegexValid = TRUE
    /\ AppIdle

\* A render pass: App computes matchCount and isRegexValid, and the memo
\* callback of parts runs up to its first return or to the head of the
\* while loop.
Render ==
    /\ pc = "render"
    /\ matchCount' = AppMemo(text, regexPattern, flags).matchCount
    /\ isRegexValid' = AppMemo(text, regexPattern, flags).isRegexValid
    /\ lastIndex' = FreshLastIndex
    /\ iters' = 0
    /\ IF EarlyReturn(text, regexPattern).returns
       THEN /\ result' = EarlyReturn(text, regexPattern).value
            /\ branch' = EarlyReturn(text, regexPattern).branch
            /\ pc' = "done"
            /\ safeFlags' = <<>>
            /\ regex' = NoRegex
       ELSE /\ safeFlags' = SafeFlags(flags)
            /\ IF Compiles(regexPattern, SafeFlags(flags))
               THEN /\ regex' = [source |-> regexPattern, flags |-> SafeFlags(flags),
                                 lastIndex |-> 0]
                    /\ result' = <<>>
                    /\ branch' = "loop"
                    /\ pc' = "loop"
               ELSE /\ regex' = NoRegex
                    /\ result' = CatchResult(text)
                    /\ branch' = "catch"
                    /\ pc' = "done"
    /\ UNCHANGED <<text, regexPattern, flags, genVars, noted, storeVars, musicVars>>

\* One run of the loop body: exec found a match.
LoopBody ==
    /\ pc = "loop"
    /\ iters < IterCap
    /\ \E match \in {Exec(text, regex)} :
        /\ match.found
        /\ result' = result \o PreMatchSpans(text, lastIndex, match) \o MatchSpans(text, match)
        /\ lastIndex' = ConsumedUpTo(match)
        /\ regex' = [regex EXCEPT !.lastIndex = GuardedCursor(match)]
    /\ iters' = iters + 1
    /\ UNCHANGED <<text, regexPattern, flags, pc, branch, safeFlags, matchCount, isRegexValid,
                   genVars, noted, storeVars, musicVars>>

\* exec returned null (and reset regex.lastIndex): the rest of the text is
\* pushed and result is returned.
LoopExit ==
    /\ pc = "loop"
    /\ ~Exec(text, regex).found
    /\ regex' = [regex EXCEPT !.lastIndex = Exec(text, regex).lastIndex]
    /\ result' = result \o RemainingSpans(text, lastIndex)
    /\ pc' = "done"
    /\ UNCHANGED <<text, regexPattern, flags, branch, safeFlags, lastIndex, iters,
                   matchCount, isRegexValid, genVars, noted, storeVars, musicVars>>

Next ==
    \/ Render
    \/ LoopBody
    \/ LoopExit

Spec == Init /\ [][Next]_vars

----------------------------------------------------------------------------
(* App: the fields, Clear All and handleGenerate around MatchHighlighter *)

MaxRequests == 2

AppTexts == {<<>>, <<"\n">>, <<"a", "\n", "a">>}

AppPatterns == {<<>>, <<"a">>, <<"^">>, <<"(">>}

AppFlags == {<<>>, <<"g", "m">>, <<"x">>}

Prompts == {<<>>, <<" ">>, <<"p">>}

\* SAMPLE_DATA and the initial flags, in the units of the model.
SampleData == <<"a", "\n", "a">>

InitialFlags == <<"g", "m">>

\* App is mounted: the state the useState calls of the text fields and of
\* handleGenerate give, before the first render.
InitAppFields ==
    /\ text = SampleData
    /\ userPrompt = InitialPrompt
    /\ regexPattern = <<>>
    /\ flags = InitialFlags
    /\ regexResult = NoResult
    /\ loading = FALSE
    /\ error = NullError
    /\ pending = 0
    /\ apiKey \in BOOLEAN
    /\ thrown = NothingThrown
    /\ noted = NothingNoted
    /\ pc = "render"
    /\ branch = "none"
    /\ safeFlags = <<>>
    /\ regex = NoRegex
    /\ lastIndex = 0
    /\ result = <<>>
    /\ iters = 0
    /\ matchCount = 0
    /\ isRegexValid = TRUE

\* App is mounted with nothing stored under STORAGE_KEY and an empty playlist.
InitApp == InitAppFields /\ StoreEmpty /\ MusicDefault

\* App renders again with inputData t, manualRegex p and manualFlags f: its
\* own memo is evaluated; MatchHighlighter is rendered only for non-empty t,
\* and then parts is computed again when the component is new or a
\* dependency differs from the last render's.
Rerender(t, p, f) ==
    /\ matchCount' = AppMemo(t, p, f).matchCount
    /\ isRegexValid' = AppMemo(t, p, f).isRegexValid
    /\ IF t = <<>>
       THEN /\ pc' = "done"
            /\ branch' = "unmounted"
            /\ result' = <<>>
            /\ safeFlags' = <<>>
            /\ regex' = NoRegex
            /\ lastIndex' = 0
            /\ iters' = 0
       ELSE IF text # <<>> /\ MemoDeps(t, p, f) = MemoDeps(text, regexPattern, flags)
            THEN UNCHANGED <<pc, branch, safeFlags, regex, lastIndex, result, iters>>
            ELSE /\ pc' = "render"
                 /\ UNCHANGED <<branch, safeFlags, regex, lastIndex, result, iters>>

\* generateRegexFromPrompt threw at its API key check: the promise
\* handleGenerate awaits is already rejected, and its catch block is a
\* queued microtask that runs before the next event is handled.
RejectionQueued == ~apiKey /\ pending > 0

\* Event handlers run between renders, never during one, and after the
\* microtasks queued by the handler before them.
Idle == pc = "done" /\ ~RejectionQueued

\* onChange of the test data textarea
EditText(t) ==
    /\ Idle
    /\ text' = t
    /\ Rerender(t, regexPattern, flags)
    /\ UNCHANGED <<regexPattern, flags, genVars, noted, storeVars, musicVars>>

\* onChange of the prompt textarea
EditPrompt(u) ==
    /\ Idle
    /\ userPrompt' = u
    /\ UNCHANGED <<text, regexPattern, flags, hlVars, loading, error, regexResult, pending,
                   apiKey, thrown, noted, storeVars, musicVars>>

\* onChange of the pattern input
EditPattern(p) ==
    /\ Idle
    /\ regexPattern' = p
    /\ Rerender(text, p, flags)
    /\ UNCHANGED <<text, flags, genVars, noted, storeVars, musicVars>>

\* onChange of the flags input
EditFlags(f) ==
    /\ Idle
    /\ flags' = f
    /\ Rerender(text, regexPattern, f)
    /\ UNCHANGED <<text, regexPattern, genVars, noted, storeVars, musicVars>>

\* onClick of Clear All
ClearAll ==
    /\ Idle
    /\ text' = <<>>
    /\ userPrompt' = <<>>
    /\ regexResult' = NoResult
    /\ regexPattern' = <<>>
    /\ error' = NullError
    /\ Rerender(<<>>, <<>>, flags)
    /\ UNCHANGED <<flags, loading, pending, apiKey, thrown, noted, storeVars, musicVars>>

\* handleGenerate up to its await: the blank check, then setLoading(true),
\* setError(null), setRegexResult(null) and the call of
\* generateRegexFromPrompt.  The handler yields there whether the call sent
\* a request or threw at the API key check.
HandleGenerate ==
    IF Trim(text) = <<>> \/ Trim(userPrompt) = <<>>
    THEN /\ error' = ProvideBothMsg
         /\ UNCHANGED <<text, regexPattern, flags, hlVars, userPrompt, loading, regexResult,
                        pending, apiKey, thrown, noted, storeVars, musicVars>>
    ELSE /\ pending < MaxRequests
         /\ loading' = TRUE
         /\ error' = NullError
         /\ regexResult' = NoResult
         /\ pending' = pending + 1
         /\ UNCHANGED <<text, regexPattern, flags, hlVars, userPrompt, apiKey, thrown,
                        noted, storeVars, musicVars>>

\* onClick of the generate button: disabled={loading || !inputData || !userPrompt}
ClickGenerate ==
    /\ Idle
    /\ ~(loading \/ text = <<>> \/ userPrompt = <<>>)
    /\ HandleGenerate

\* onKeyDown of the prompt textarea, Enter with Ctrl or Cmd
ShortcutGenerate ==
    /\ Idle
    /\ HandleGenerate

\* A request resolves with the object r: the rest of the try block, then finally.
CompleteSuccess(r) ==
    /\ pc = "done"
    /\ apiKey
    /\ pending > 0
    /\ regexResult' = r
    /\ regexPattern' = Field(r, "pattern")
    /\ flags' = Field(r, "flags")
    /\ loading' = FALSE
    /\ pending' = pending - 1
    /\ Rerender(text, Field(r, "pattern"), Field(r, "flags"))
    /\ UNCHANGED <<text, userPrompt, error, apiKey, thrown, noted, storeVars, musicVars>>

\* The ways a call of generateRegexFromPrompt can fail: without an API key
\* at the check before the try block, with one only after it.
Failures == IF apiKey THEN RemoteFailures ELSE {"missingApiKey"}

\* The awaited promise rejects: the catch block, then finally.
CompleteFailure(cause) ==
    /\ pc = "done"
    /\ cause \in Failures
    /\ pending > 0
    /\ thrown' = [cause |-> cause, message |-> GenerateError(cause)]
    /\ error' = AppErrorMessage(GenerateError(cause))
    /\ loading' = FALSE
    /\ pending' = pending - 1
    /\ UNCHANGED <<text, regexPattern, flags, hlVars, userPrompt, regexResult, apiKey, noted, storeVars, musicVars>>

NextApp ==
    \/ Render
    \/ LoopBody
    \/ LoopExit
    \/ \E t \in AppTexts : EditText(t)
    \/ \E u \in Prompts : EditPrompt(u)
    \/ \E p \in AppPatterns : EditPattern(p)
    \/ \E f \in AppFlags : EditFlags(f)
    \/ ClearAll
    \/ ClickGenerate
    \/ ShortcutGenerate
    \/ \E r \in Responses : CompleteSuccess(r)
    \/ \E cause \in RemoteFailures \union {"missingApiKey"} : CompleteFailure(cause)

SpecApp == InitApp /\ [][NextApp]_vars

----------------------------------------------------------------------------
(* The memo callback called again and again *)

CallTexts == {<<"a">>, <<"a", "a">>, <<"\n", "a">>}

CallPatterns == {<<>>, <<"a">>, <<"^">>, <<"(">>}

CallFlags == {<<>>, <<"g">>, <<"m">>}

\* The callback is called with (t, p, f).  What the previous call left in
\* its locals is still there; the call starts at the top of the callback.
Call(t, p, f) ==
    /\ pc = "done"
    /\ text' = t
    /\ regexPattern' = p
    /\ flags' = f
    /\ pc' = "render"
    /\ noted' = IF noted.set /\ <<t, p, f>> # <<noted.text, noted.regexPattern, noted.flags>>
                THEN [noted EXCEPT !.between = TRUE]
                ELSE noted
    /\ UNCHANGED <<branch, safeFlags, regex, lastIndex, result, iters, matchCount, isRegexValid,
                   genVars, storeVars, musicVars>>

\* An observer keeps the result of the call that has just returned.
Note ==
    /\ pc = "done"
    /\ noted' = [set |-> TRUE, text |-> text, regexPattern |-> regexPattern, flags |-> flags,
                 result |-> result, between |-> FALSE]
    /\ UNCHANGED <<text, regexPattern, flags, hlVars, genVars, storeVars, musicVars>>

InitCalls ==
    /\ text \in CallTexts
    /\ regexPattern \in CallPatterns
    /\ flags \in CallFlags
    /\ pc = "render"
    /\ branch = "none"
    /\ safeFlags = <<>>
    /\ regex = NoRegex
    /\ lastIndex = 0
    /\ result = <<>>
    /\ iters = 0
    /\ matchCount = 0
    /\ isRegexValid = TRUE
    /\ AppIdle

NextCalls ==
    \/ Render
    \/ LoopBody
    \/ LoopExit
    \/ \E t \in CallTexts, p \in CallPatterns, f \in CallFlags : Call(t, p, f)
    \/ Note

SpecCalls == InitCalls /\ [][NextCalls]_vars

----------------------------------------------------------------------------
(* The playlist store *)

MaxIds == 3

MaxOps == 4

\* The calls of addTrack and deleteTrack that may be in progress at once.
MaxPending == 2

\* The values crypto.randomUUID can return, in the order IndexedDB sorts
\* them as keys.  A value is returned once: the ids in issued are used up.
Ids == 1..MaxIds

\* The File objects passed to addTrack: name, content, type.
Files ==
    { [name |-> "x.mp3", blob |-> "b1", type |-> "audio/mpeg"],
      [name |-> "x.mp3", blob |-> "b2", type |-> "audio/mpeg"],
      [name |-> "y.mp3", blob |-> "b1", type |-> "audio/mpeg"] }

\* store.get(id) found nothing: request.result is undefined
NoRecord == [undefined |-> TRUE]

\* getTrackBlob resolves with null
NullBlob == "null"

\* const track = { id, name: file.name, blob: file, type: file.type }
Track(id, file) == [id |-> id, name |-> file.name, blob |-> file.blob, type |-> file.type]

\* store.add(track) with keyPath 'id': an existing key is a ConstraintError
StoreAdd(s, track) ==
    IF \E r \in s : r.id = track.id
    THEN [ok |-> FALSE, store |-> s]
    ELSE [ok |-> TRUE, store |-> s \union {track}]

\* store.delete(id): succeeds whether or not the key is there
StoreDelete(s, id) == {r \in s : r.id # id}

\* store.get(id)
StoreGet(s, id) ==
    IF \E r \in s : r.id = id THEN CHOOSE r \in s : r.id = id ELSE NoRecord

RECURSIVE OpenCursor(_)

\* store.openCursor() with cursor.continue(): the records in key order, each
\* pushed as { id: cursor.value.id, name: cursor.value.name }
OpenCursor(s) ==
    IF s = {} THEN <<>>
    ELSE LET first == CHOOSE r \in s : \A q \in s : r.id <= q.id
         IN <<[id |-> first.id, name |-> first.name]>> \o OpenCursor(s \ {first})

\* getPlaylistMetadata(): the value it resolves with
GetPlaylistMetadata == OpenCursor(tracks)

\* getTrackBlob(id): resolve(result ? result.blob : null)
GetTrackBlob(id) ==
    IF StoreGet(tracks, id) # NoRecord THEN StoreGet(tracks, id).blob ELSE NullBlob

\* A call may be made: the calls made, completed or not, stay within the bounds.
MayCall == Len(queue) < MaxPending /\ Len(history) + Len(queue) < MaxOps

\* addTrack(file), the promise executor: randomUUID gives id, the track is
\* built, a readwrite transaction is created and store.add is requested.
\* Transactions on one store run in the order of their creation, each
\* after the one before it has completed or aborted.
AddTrackRequest(file, id) ==
    /\ MayCall
    /\ id \in Ids \ issued
    /\ issued' = issued \union {id}
    /\ queue' = Append(queue, [op |-> "add", track |-> Track(id, file)])
    /\ UNCHANGED <<text, regexPattern, flags, hlVars, genVars, noted, musicVars, tracks,
                   history, committing>>

\* The oldest transaction created and not yet run may run.
MayRun(op) == queue # <<>> /\ Head(queue).op = op /\ committing = NoTransaction

\* request.onsuccess of an add: addTrack resolves with { id, name }.  The
\* code waits for the request, not for the transaction: the track is in
\* the store once the transaction completes.
AddTrackSuccess ==
    /\ MayRun("add")
    /\ StoreAdd(tracks, Head(queue).track).ok
    /\ history' = Append(history, [op |-> "add", id |-> Head(queue).track.id,
                                   name |-> Head(queue).track.name,
                                   blob |-> Head(queue).track.blob])
    /\ committing' = Head(queue)
    /\ queue' = Tail(queue)
    /\ UNCHANGED <<text, regexPattern, flags, hlVars, genVars, noted, musicVars, tracks,
                   issued>>

\* request.onerror of an add (the request failed or its transaction was
\* aborted): addTrack rejects, the id is spent, nothing is stored.
AddTrackError ==
    /\ MayRun("add")
    /\ queue' = Tail(queue)
    /\ UNCHANGED <<text, regexPattern, flags, hlVars, genVars, noted, musicVars, tracks,
                   issued, history, committing>>

\* deleteTrack(id), the promise executor: a readwrite transaction is created
\* and store.delete is requested.
DeleteTrackRequest(id) ==
    /\ MayCall
    /\ queue' = Append(queue, [op |-> "delete", id |-> id])
    /\ UNCHANGED <<text, regexPattern, flags, hlVars, genVars, noted, musicVars, tracks,
                   issued, history, committing>>

\* request.onsuccess of a delete: deleteTrack resolves.
DeleteTrackSuccess ==
    /\ MayRun("delete")
    /\ history' = Append(history, [op |-> "delete", id |-> Head(queue).id, name |-> "",
                                   blob |-> ""])
    /\ committing' = Head(queue)
    /\ queue' = Tail(queue)
    /\ UNCHANGED <<text, regexPattern, flags, hlVars, genVars, noted, musicVars, tracks,
                   issued>>

\* request.onerror of a delete (the request failed or its transaction was
\* aborted): deleteTrack rejects, the record stays.
DeleteTrackError ==
    /\ MayRun("delete")
    /\ queue' = Tail(queue)
    /\ UNCHANGED <<text, regexPattern, flags, hlVars, genVars, noted, musicVars, tracks,
                   issued, history, committing>>

\* What the transaction t writes to the store s.
Written(s, t) ==
    IF t.op = "add" THEN StoreAdd(s, t.track).store ELSE StoreDelete(s, t.id)

\* The transaction whose request succeeded completes: its write is in the
\* store.  (No handler of the code listens: the call has resolved already.)
TransactionComplete ==
    /\ committing # NoTransaction
    /\ tracks' = Written(tracks, committing)
    /\ committing' = NoTransaction
    /\ UNCHANGED <<text, regexPattern, flags, hlVars, genVars, noted, musicVars, issued,
                   history, queue>>

\* The transaction whose request succeeded aborts (its commit fails): its
\* write is undone.  (No handler of the code listens.)
TransactionAbort ==
    /\ committing # NoTransaction
    /\ committing' = NoTransaction
    /\ UNCHANGED <<text, regexPattern, flags, hlVars, genVars, noted, musicVars, tracks,
                   issued, history, queue>>

\* No component is mounted: the store is a module of its own.
NoComponent ==
    /\ text = <<>>
    /\ regexPattern = <<>>
    /\ flags = <<>>
    /\ pc = "done"
    /\ branch = "none"
    /\ safeFlags = <<>>
    /\ regex = NoRegex
    /\ lastIndex = 0
    /\ result = <<>>
    /\ iters = 0
    /\ matchCount = 0
    /\ isRegexValid = TRUE

\* The database is created (initDB, onupgradeneeded): the store is empty.
InitStore == NoComponent /\ AppIdle

NextStore ==
    \/ \E file \in Files, id \in Ids : AddTrackRequest(file, id)
    \/ AddTrackSuccess
    \/ AddTrackError
    \/ \E id \in Ids : DeleteTrackRequest(id)
    \/ DeleteTrackSuccess
    \/ DeleteTrackError
    \/ TransactionComplete
    \/ TransactionAbort

SpecStore == InitStore /\ [][NextStore]_vars

----------------------------------------------------------------------------
(* App: the background music setting *)

\* const MAX_FILE_SIZE = 2.5 * 1024 * 1024
MaxFileSize == 2621440

\* e.target.files?.[0] is undefined
NoFile == [none |-> TRUE]

\* The files chosen in the settings dialog: type, size in bytes, and the
\* data URL readAsDataURL gives for the content.
UploadFiles ==
    { [type |-> "audio/mpeg", size |-> 1, data |-> "data:f1"],
      [type |-> "audio/mp3", size |-> MaxFileSize, data |-> "data:f2"],
      [type |-> "audio/mpeg", size |-> MaxFileSize + 1, data |-> "data:big"],
      [type |-> "audio/mpeg", size |-> 2 * MaxFileSize, data |-> "data:huge"],
      [type |-> "text/plain", size |-> 1, data |-> "data:txt"] }

\* What an earlier session may have left under STORAGE_KEY.
StoredBefore == {NoItem, "data:old"}

InvalidTypeMsg == "Please upload a valid MP3 file."

\* (num / den).toFixed(2) for a quotient below 10^21: the integer n with
\* n / 100 nearest to num / den, the larger n on a tie, written with two
\* decimals.  (The divisions by 1024 are exact in a double.)
ToFixed2(num, den) ==
    LET n == (200 * num + den) \div (2 * den)
    IN ToString(n \div 100) \o "." \o ToString((n % 100) \div 10) \o ToString(n % 10)

\* `File is too large (${(file.size / 1024 / 1024).toFixed(2)}MB). Max size
\* is 2.5MB for local storage.`
TooLargeMsg(size) ==
    "File is too large (" \o ToFixed2(size, 1024 * 1024)
        \o "MB). Max size is 2.5MB for local storage."

QuotaMsg == "Storage quota exceeded. The file is too large to save in your browser."

ReadFailedMsg == "Failed to read file."

ResetFailedMsg == "Failed to reset settings."

PlayFailedMsg == "Failed to play music."

\* (mutant: the stored item is not looked at)
InitialMusicSrcDefault(ok, item) == DefaultMusicUrl

\* useState(() => { try { return localStorage.getItem(STORAGE_KEY) ||
\* DEFAULT_MUSIC_URL } catch (e) { return DEFAULT_MUSIC_URL } })
InitialMusicSrc(ok, item) ==
    IF ~ok THEN DefaultMusicUrl
    ELSE IF item = NoItem \/ item = "" THEN DefaultMusicUrl
    ELSE item

\* file.type !== "audio/mpeg" && file.type !== "audio/mp3"
WrongType(file) == file.type # "audio/mpeg" /\ file.type # "audio/mp3"

\* file.size > MAX_FILE_SIZE
TooLarge(file) == file.size > MaxFileSize

\* (mutant: the source is set before the item is stored)
MusicSrcAfterLoadEager(data, ok) == data

\* localStorage.setItem(STORAGE_KEY, result); setMusicSrc(result): when
\* setItem throws, setMusicSrc is not reached.
MusicSrcAfterLoad(data, ok) == IF ok THEN data ELSE musicSrc

\* The FileReaders and play() promises that may be pending at once.
MaxReaders == 2

MaxPlays == 2

\* App is mounted: musicSrc is read from localStorage.
InitMusic ==
    /\ InitAppFields
    /\ StoreEmpty
    /\ storageOk \in BOOLEAN
    /\ stored \in (IF storageOk THEN StoredBefore ELSE {NoItem})
    /\ musicSrc = InitialMusicSrc(storageOk, stored)
    /\ uploadError = NoUploadError
    /\ isMusicPlaying = FALSE
    /\ audioError = FALSE
    /\ readers = EmptyBag
    /\ plays = 0
    /\ isSettingsOpen = FALSE

\* onClick of the Settings button
OpenSettings ==
    /\ isSettingsOpen' = TRUE
    /\ UNCHANGED <<text, regexPattern, flags, hlVars, genVars, noted, storeVars, musicSrc,
                   uploadError, isMusicPlaying, audioError, storageOk, stored, readers, plays>>

\* onClick of the dialog's X and Close buttons, rendered while the dialog is shown
CloseSettings ==
    /\ isSettingsOpen
    /\ isSettingsOpen' = FALSE
    /\ uploadError' = NoUploadError
    /\ UNCHANGED <<text, regexPattern, flags, hlVars, genVars, noted, storeVars, musicSrc,
                   isMusicPlaying, audioError, storageOk, stored, readers, plays>>

\* const isCustomMusic = musicSrc !== DEFAULT_MUSIC_URL
IsCustomMusic == musicSrc # DefaultMusicUrl

\* handleFileUpload, up to reader.readAsDataURL(file); the file input is
\* part of the settings dialog.
HandleFileUpload(file) ==
    /\ isSettingsOpen
    /\ IF file = NoFile
       THEN UNCHANGED vars
       ELSE IF WrongType(file)
            THEN /\ uploadError' = InvalidTypeMsg
                 /\ UNCHANGED <<text, regexPattern, flags, hlVars, genVars, noted, storeVars,
                                musicSrc, isMusicPlaying, audioError, storageOk, stored,
                                readers, plays, isSettingsOpen>>
            ELSE IF TooLarge(file)
                 THEN /\ uploadError' = TooLargeMsg(file.size)
                      /\ UNCHANGED <<text, regexPattern, flags, hlVars, genVars, noted,
                                     storeVars, musicSrc, isMusicPlaying, audioError,
                                     storageOk, stored, readers, plays, isSettingsOpen>>
                 ELSE /\ BagCardinality(readers) < MaxReaders
                      /\ readers' = readers (+) SetToBag({[file |-> file,
                                                           playing |-> isMusicPlaying]})
                      /\ UNCHANGED <<text, regexPattern, flags, hlVars, genVars, noted,
                                     storeVars, musicSrc, uploadError, isMusicPlaying,
                                     audioError, storageOk, stored, plays, isSettingsOpen>>

\* reader.onload of a reader r: setItem succeeds when the storage can be
\* accessed and the data fits the quota left.  The callback sees the
\* isMusicPlaying of the render in which the upload was started.
ReaderLoad(r, fits) ==
    /\ BagIn(r, readers)
    /\ readers' = readers (-) SetToBag({r})
    /\ musicSrc' = MusicSrcAfterLoad(r.file.data, storageOk /\ fits)
    /\ IF storageOk /\ fits
       THEN /\ stored' = r.file.data
            /\ uploadError' = NoUploadError
            /\ isMusicPlaying' = (IF r.playing THEN FALSE ELSE isMusicPlaying)
            /\ audioError' = FALSE
       ELSE /\ uploadError' = QuotaMsg
            /\ UNCHANGED <<stored, isMusicPlaying, audioError>>
    /\ UNCHANGED <<text, regexPattern, flags, hlVars, genVars, noted, storeVars, storageOk,
                   plays, isSettingsOpen>>

\* reader.onerror
ReaderError(r) ==
    /\ BagIn(r, readers)
    /\ readers' = readers (-) SetToBag({r})
    /\ uploadError' = ReadFailedMsg
    /\ UNCHANGED <<text, regexPattern, flags, hlVars, genVars, noted, storeVars, musicSrc,
                   isMusicPlaying, audioError, storageOk, stored, plays, isSettingsOpen>>

\* handleResetMusic: removeItem throws when the storage cannot be accessed.
\* The reset button is part of the settings dialog and rendered only for
\* a custom source.
HandleResetMusic ==
    /\ isSettingsOpen
    /\ IsCustomMusic
    /\ IF storageOk
       THEN /\ stored' = NoItem
            /\ musicSrc' = DefaultMusicUrl
            /\ uploadError' = NoUploadError
            /\ isMusicPlaying' = FALSE
            /\ audioError' = FALSE
       ELSE /\ uploadError' = ResetFailedMsg
            /\ UNCHANGED <<stored, musicSrc, isMusicPlaying, audioError>>
    /\ UNCHANGED <<text, regexPattern, flags, hlVars, genVars, noted, storeVars, storageOk,
                   readers, plays, isSettingsOpen>>

\* toggleMusic: after an audio error the element is loaded again; playing
\* music is paused; otherwise audio.play() is called and its promise is
\* waited for.
ToggleMusic ==
    /\ audioError' = FALSE
    /\ IF isMusicPlaying
       THEN /\ isMusicPlaying' = FALSE
            /\ UNCHANGED plays
       ELSE /\ plays < MaxPlays
            /\ plays' = plays + 1
            /\ UNCHANGED isMusicPlaying
    /\ UNCHANGED <<text, regexPattern, flags, hlVars, genVars, noted, storeVars, musicSrc,
                   uploadError, storageOk, stored, readers, isSettingsOpen>>

\* A promise of audio.play() is fulfilled: the then callback
PlayResolved ==
    /\ plays > 0
    /\ plays' = plays - 1
    /\ isMusicPlaying' = TRUE
    /\ error' = NullError
    /\ UNCHANGED <<text, regexPattern, flags, hlVars, userPrompt, loading, regexResult, pending,
                   apiKey, thrown, noted, storeVars, musicSrc, uploadError, audioError,
                   storageOk, stored, readers, isSettingsOpen>>

\* A promise of audio.play() is rejected: the catch callback
PlayRejected ==
    /\ plays > 0
    /\ plays' = plays - 1
    /\ error' = PlayFailedMsg
    /\ isMusicPlaying' = FALSE
    /\ UNCHANGED <<text, regexPattern, flags, hlVars, userPrompt, loading, regexResult, pending,
                   apiKey, thrown, noted, storeVars, musicSrc, uploadError, audioError,
                   storageOk, stored, readers, isSettingsOpen>>

\* onError of the audio element
AudioElementError ==
    /\ audioError' = TRUE
    /\ isMusicPlaying' = FALSE
    /\ UNCHANGED <<text, regexPattern, flags, hlVars, genVars, noted, storeVars, musicSrc,
                   uploadError, storageOk, stored, readers, plays, isSettingsOpen>>

NextMusic ==
    \/ OpenSettings
    \/ CloseSettings
    \/ \E file \in UploadFiles \union {NoFile} : HandleFileUpload(file)
    \/ \E r \in BagToSet(readers), fits \in BOOLEAN : ReaderLoad(r, fits)
    \/ \E r \in BagToSet(readers) : ReaderError(r)
    \/ HandleResetMusic
    \/ ToggleMusic
    \/ PlayResolved
    \/ PlayRejected
    \/ AudioElementError

SpecMusic == InitMusic /\ [][NextMusic]_vars

----------------------------------------------------------------------------
(* Properties *)

RECURSIVE Contents(_)
\* The spans' contents, concatenated in order.
Contents(spans) ==
    IF spans = <<>> THEN <<>> ELSE Head(spans).content \o Contents(Tail(spans))

Matched(i) == result[i].isMatch

ZeroWidth(i) == result[i].isMatch /\ result[i].content = <<>>

\* The pattern does not parse.
PatternInvalid == ~ParsePattern(regexPattern).ok

\* The end of the match the compiled pattern makes when started at position i.
WholeMatchEnd(i) == Head(Ends(ParsePattern(regexPattern).node, text, i, safeFlags))

OneUnmatchedSpanOfText ==
    /\ Len(result) = 1
    /\ result[1].isMatch = FALSE
    /\ result[1].content = text

\* C1: when parts is computed, the contents of its spans, concatenated in
\* order, are exactly text.
C1_LosslessPartition == pc = "done" => Contents(result) = text

\* C1 witness: a computed result with two touching matched spans and a
\* zero-width match at the very end of the text.
C1_Witness ==
    /\ pc = "done"
    /\ branch = "loop"
    /\ \E i \in 1..Len(result) : ZeroWidth(i) /\ result[i].index = Len(text)
    /\ \E i \in 1..(Len(result) - 1) : Matched(i) /\ Matched(i + 1)
    /\ \E i \in 1..Len(result) : ~Matched(i)

\* C2 (as claimed): every iteration of the loop moves the search cursor
\* strictly forward, and the body runs at most Len(text) + 1 times.
C2_CursorStrictlyIncreases ==
    [][(pc = "loop" /\ pc' = "loop")
        => (regex'.lastIndex > regex.lastIndex /\ iters' <= Len(text) + 1)]_vars

\* C3 (as claimed): for every text, an invalid pattern gives exactly one
\* unmatched span holding the whole text.
C3_InvalidPatternOneSpan_AnyText ==
    (pc = "done" /\ PatternInvalid) => OneUnmatchedSpanOfText

\* C3 (amended): for every non-empty text, an invalid pattern gives exactly
\* one unmatched span holding the whole text.
C3_InvalidPatternOneSpan ==
    (pc = "done" /\ PatternInvalid /\ text # <<>>) => OneUnmatchedSpanOfText

\* C3 witness: the catch branch was taken for an invalid pattern under
\* valid flags.
C3_Witness ==
    /\ pc = "done"
    /\ branch = "catch"
    /\ PatternInvalid
    /\ FlagsValid(safeFlags)
    /\ Len(text) >= 2

\* The loop is at a fixed point: exec finds a match from the cursor, and the
\* body puts the cursor back where it is.  exec depends on text and the
\* cursor only, so every later iteration does the same and the loop cannot end.
LoopCannotEnd ==
    /\ pc = "loop"
    /\ Exec(text, regex).found
    /\ GuardedCursor(Exec(text, regex)) = regex.lastIndex

\* C4 (as claimed): a computation of parts never ends in an error and
\* always completes with a result: it is never in a loop that cannot end.
C4_CallCompletes == pc # "error" /\ ~LoopCannotEnd

\* C5: for empty text the result is the empty sequence, whatever the
\* pattern and the flags.
C5_EmptyText == (pc = "done" /\ text = <<>>) => result = <<>>

\* C5 witness: empty text with an empty pattern (the two early returns
\* compete) has been rendered.
C5_Witness ==
    /\ pc = "done"
    /\ text = <<>>
    /\ regexPattern = <<>>
    /\ ~FlagsValid(SafeFlags(flags))

\* C6: an empty pattern over non-empty text gives one unmatched span holding
\* the text, and nothing is compiled on that path.
C6_EmptyPattern ==
    (pc = "done" /\ regexPattern = <<>> /\ text # <<>>)
        => (OneUnmatchedSpanOfText /\ branch = "emptyPattern" /\ regex = NoRegex)

\* C6 witness: an empty pattern over non-empty text, rendered with flags
\* the compiler would reject.
C6_Witness ==
    /\ pc = "done"
    /\ regexPattern = <<>>
    /\ text # <<>>
    /\ ~FlagsValid(SafeFlags(flags))

\* C7: no unmatched span is empty, no two neighbouring spans are both
\* unmatched, and two consecutive matches that touch are neighbours.
C7_Alternation ==
    pc = "done" =>
        /\ \A i \in 1..Len(result) : ~Matched(i) => result[i].content # <<>>
        /\ \A i \in 1..(Len(result) - 1) : Matched(i) \/ Matched(i + 1)
        /\ \A i, j \in 1..Len(result) :
              ( /\ i < j
                /\ Matched(i)
                /\ Matched(j)
                /\ \A k \in (i + 1)..(j - 1) : ~Matched(k)
                /\ result[j].index = result[i].index + Len(result[i].content) )
              => j = i + 1

\* C7 witness: a result with two touching matches (the second zero-width)
\* and an unmatched span after them.
C7_Witness ==
    /\ pc = "done"
    /\ \E i \in 1..(Len(result) - 2) :
          /\ Matched(i)
          /\ ZeroWidth(i + 1)
          /\ result[i + 1].index = result[i].index + Len(result[i].content)
          /\ ~Matched(i + 2)

\* C8 (as claimed): no span of the result has empty content.
C8_NoEmptySpan ==
    pc = "done" => \A i \in 1..Len(result) : result[i].content # <<>>

\* C8 (amended): an unmatched span is never empty, and a matched span is
\* empty exactly when the pattern's match at its offset is zero-width.
C8_EmptyOnlyZeroWidthMatch ==
    pc = "done" =>
        \A i \in 1..Len(result) :
            IF Matched(i)
            THEN (result[i].content = <<>>) <=> (WholeMatchEnd(result[i].index) = result[i].index)
            ELSE result[i].content # <<>>

\* C8 witness: a result holding an empty matched span and an unmatched span.
C8_Witness ==
    /\ pc = "done"
    /\ \E i \in 1..Len(result) : ZeroWidth(i)
    /\ \E i \in 1..Len(result) : ~Matched(i)
    /\ lastIndex = Len(text)

\* C9: a matched span's index is where its content lies in text, which is
\* the total length of the spans before it; its content is the whole match;
\* an unmatched span has no index.
C9_MatchOffsets ==
    pc = "done" =>
        \A i \in 1..Len(result) :
            IF Matched(i)
            THEN /\ "index" \in DOMAIN result[i]
                 /\ result[i].index = Len(Contents(SubSeq(result, 1, i - 1)))
                 /\ Slice(text, result[i].index, result[i].index + Len(result[i].content))
                        = result[i].content
                 /\ result[i].index + Len(result[i].content) = WholeMatchEnd(result[i].index)
            ELSE "index" \notin DOMAIN result[i]

\* C9 witness: a match longer than its capture group, found past the start
\* of the text.
C9_Witness ==
    /\ pc = "done"
    /\ regexPattern = <<".", "(", "a", ")">>
    /\ \E i \in 1..Len(result) :
          Matched(i) /\ result[i].index > 0 /\ Len(result[i].content) = 2

\* The number of units of f equal to c.
Count(f, c) == Cardinality({k \in 1..Len(f) : f[k] = c})

\* C10: the flags compiled contain 'g'; flags that have it are used as they
\* are, otherwise one 'g' is appended to them; normalizing again changes
\* nothing.
C10_FlagNormalization ==
    branch \in {"loop", "catch"} =>
        /\ Includes(safeFlags, "g")
        /\ Includes(flags, "g") => safeFlags = flags
        /\ ~Includes(flags, "g") =>
              /\ Len(safeFlags) = Len(flags) + 1
              /\ SubSeq(safeFlags, 1, Len(flags)) = flags
              /\ Count(safeFlags, "g") = 1
        /\ SafeFlags(safeFlags) = safeFlags
        /\ branch = "loop" => regex.flags = safeFlags

\* C10 witness: flags without 'g' were compiled with 'g' appended, and the
\* loop found every match.
C10_Witness ==
    /\ pc = "done"
    /\ branch = "loop"
    /\ flags = <<"m">>
    /\ regex.flags = <<"m", "g">>
    /\ iters >= 2

----------------------------------------------------------------------------
(* Flag injection *)

\* The number of matched spans of a span sequence.
MatchedSpans(spans) == Cardinality({i \in 1..Len(spans) : spans[i].isMatch})

IsPrefix(a, b) == Len(a) <= Len(b) /\ SubSeq(b, 1, Len(a)) = a

\* The pattern matches at position q of text (q is the start of a character).
OccursAt(q) ==
    /\ InputIndex(text, q, safeFlags) = q
    /\ Ends(ParsePattern(regexPattern).node, text, q, safeFlags) # <<>>

\* Position q is the start of a matched span, or lies inside one.
Reported(q) ==
    \E i \in 1..Len(result) :
        /\ Matched(i)
        /\ \/ result[i].index = q
           \/ result[i].index < q /\ q < result[i].index + Len(result[i].content)

\* Every position where the pattern matches is reported or overlapped by a
\* reported match.
NoOccurrenceSkipped == \A q \in 0..Len(text) : OccursAt(q) => Reported(q)

\* The same call with 'g' added to the flags.
WithG == Segment(text, regexPattern, Append(flags, "g"))

\* C11 as stated: a call whose flags lack 'g' finds every occurrence of the
\* pattern in text, and returns what the same call with 'g' added returns.
C11_AllOccurrencesFound ==
    (pc = "done" /\ branch = "loop" /\ ~Includes(flags, "g"))
        => (NoOccurrenceSkipped /\ result = WithG.value)

\* C11 amended: a call whose flags lack 'g' pushes, span for span, what the
\* same call with 'g' added pushes, and returns the same result; it finds
\* every occurrence of the pattern when the flags lack the sticky flag 'y'
\* as well (a sticky regex matches at the cursor only, so the search stops
\* at the first position where the pattern does not match).
C11_FlagInjection ==
    (branch = "loop" /\ ~Includes(flags, "g"))
        => /\ IsPrefix(result, WithG.value)
           /\ pc = "done" => /\ result = WithG.value
                             /\ ~Includes(flags, "y") => NoOccurrenceSkipped

C11_Witness ==
    /\ pc = "done"
    /\ branch = "loop"
    /\ ~Includes(flags, "g")
    /\ ~Includes(flags, "y")
    /\ MatchedSpans(result) >= 2

----------------------------------------------------------------------------
(* The match count and the validity indicator of App *)

\* C12: once parts is computed, the match count App displays is the number
\* of matched spans of parts for the same text, pattern and flags, for
\* every triple (empty text, empty pattern and invalid pattern included).
C12_CountIsMatchedSpans == pc = "done" => matchCount = MatchedSpans(result)

\* The same, for non-empty text only.
CountIsMatchedSpans_NonEmptyText ==
    (pc = "done" /\ text # <<>>) => matchCount = MatchedSpans(result)

\* C18: for non-empty text, isRegexValid is false exactly when parts took
\* its catch return for the same pattern and flags.
C18_ValidityAgrees ==
    (pc # "render" /\ text # <<>>) => (isRegexValid = FALSE <=> branch = "catch")

C18_Witness ==
    /\ pc = "done"
    /\ text # <<>>
    /\ branch = "catch"
    /\ isRegexValid = FALSE
    /\ ParsePattern(regexPattern).ok

----------------------------------------------------------------------------
(* The zero-width guard *)

\* The matched spans of result are at strictly increasing offsets.
OffsetsStrictlyIncrease ==
    \A i, j \in 1..Len(result) :
        (i < j /\ Matched(i) /\ Matched(j)) => result[i].index < result[j].index

\* C17: in a result, and in the spans pushed so far by a regex that is not
\* in unicode mode, matched spans start at strictly increasing offsets, so
\* there are at most length(text)+1 matched spans and 2*length(text)+1 spans.
C17_OffsetsIncrease ==
    (pc = "done" \/ ~FullUnicode(safeFlags))
        => /\ OffsetsStrictlyIncrease
           /\ MatchedSpans(result) <= Len(text) + 1
           /\ Len(result) <= 2 * Len(text) + 1

C17_Witness ==
    /\ pc = "done"
    /\ Len(text) >= 2
    /\ MatchedSpans(result) = Len(text) + 1
    /\ Len(result) = 2 * Len(text) + 1
    /\ \E i \in 1..Len(result) : ZeroWidth(i)

----------------------------------------------------------------------------
(* Calls do not share state; the memo is never stale *)

\* The call that has just returned has the arguments of the noted call.
SameArguments ==
    /\ noted.set
    /\ <<text, regexPattern, flags>> = <<noted.text, noted.regexPattern, noted.flags>>

\* C13: a call with the arguments of an earlier call returns the spans the
\* earlier call returned, whatever calls were made in between.
C13_Deterministic == (pc = "done" /\ SameArguments) => result = noted.result

C13_Witness ==
    /\ pc = "done"
    /\ SameArguments
    /\ noted.between
    /\ MatchedSpans(result) >= 1
    /\ Len(result) >= 2

\* C14: between renders, the spans shown are the segmentation of the
\* current text, pattern and flags.
C14_NeverStale == pc = "done" => result = Segment(text, regexPattern, flags).value

C14_Witness ==
    /\ pc = "done"
    /\ text \notin {<<>>, SampleData}
    /\ regexPattern # <<>>
    /\ flags # InitialFlags
    /\ MatchedSpans(result) >= 1

----------------------------------------------------------------------------
(* handleGenerate *)

\* C15: the object a successful generateRegexFromPrompt returned has the
\* properties pattern, flags and explanation, each a string.
C15_ResultHasPattern ==
    regexResult # NoResult =>
        \A name \in {"pattern", "flags", "explanation"} : Field(regexResult, name) # Undefined

\* C16 as stated: whatever the cause, generateRegexFromPrompt fails with the
\* one generic message.
C16_AlwaysGeneric == thrown.cause # "none" => thrown.message = GenerationFailedMsg

\* C16 amended: a failure after the API key check (the call rejects, the
\* response is empty, the response does not parse) surfaces as the generic
\* message; a missing API key surfaces as its own message.  App shows the
\* message it caught.
C16_GenericUnlessApiKey ==
    thrown.cause # "none" =>
        thrown.message = (IF thrown.cause = "missingApiKey" THEN ApiKeyMsg
                          ELSE GenerationFailedMsg)

C16_Witness ==
    /\ thrown.cause = "emptyResponse"
    /\ error = GenerationFailedMsg
    /\ pending = 0
    /\ ~loading

\* C19: loading is true while a request is outstanding, and false when none is.
C19_LoadingIffOutstanding == loading <=> pending > 0

\* Every unit of s is white space (s may be empty).
AllWhitespace(s) == \A i \in 1..Len(s) : IsSpace(s[i])

\* A step of handleGenerate, from either trigger.
GenerateInvoked == ClickGenerate \/ ShortcutGenerate

\* C20: handleGenerate with a blank test data or prompt sets error to the
\* "provide both" message and changes nothing else: no request is issued.
C20_BlankChangesErrorOnly ==
    [][(GenerateInvoked /\ (AllWhitespace(text) \/ AllWhitespace(userPrompt)))
          => /\ error' = ProvideBothMsg
             /\ UNCHANGED <<text, regexPattern, flags, hlVars, userPrompt, loading, regexResult,
                            pending, apiKey, thrown, noted, storeVars, musicVars>>]_vars

C20_Witness ==
    /\ error = ProvideBothMsg
    /\ text # <<>>
    /\ AllWhitespace(text)
    /\ userPrompt = <<"p">>
    /\ pending = 0
    /\ ~loading

----------------------------------------------------------------------------
(* The playlist store *)

\* The completed addTrack calls whose track no later deleteTrack removed.
Live ==
    {i \in 1..Len(history) :
        /\ history[i].op = "add"
        /\ \A j \in (i + 1)..Len(history) :
               ~(history[j].op = "delete" /\ history[j].id = history[i].id)}

\* The completed addTrack calls.
Adds == {i \in 1..Len(history) : history[i].op = "add"}

\* No readwrite transaction is running: a read runs now.
ReadsRun == committing = NoTransaction

\* C21: whenever a read can run, getPlaylistMetadata has exactly one
\* {id, name} entry for each track added and not deleted afterwards, and no
\* other entry; getTrackBlob gives the blob of each such track and null for
\* any other id; addTrack calls got distinct ids.  (A deleteTrack of an id
\* that is not stored is a completed call of the history like any other.)
C21_StoreIsAddedMinusDeleted ==
    ReadsRun =>
        /\ Len(GetPlaylistMetadata) = Cardinality(Live)
        /\ \A i \in Live :
               /\ Cardinality({k \in 1..Len(GetPlaylistMetadata) :
                      GetPlaylistMetadata[k] = [id |-> history[i].id,
                                                name |-> history[i].name]}) = 1
               /\ GetTrackBlob(history[i].id) = history[i].blob
        /\ \A id \in Ids :
               (\A i \in Live : history[i].id # id) => GetTrackBlob(id) = NullBlob
        /\ \A i, j \in Adds : i # j => history[i].id # history[j].id

----------------------------------------------------------------------------
(* The background music setting *)

\* musicSrc is the stored item when there is one, the default URL otherwise.
MusicSrcIsStored == musicSrc = (IF stored # NoItem THEN stored ELSE DefaultMusicUrl)

\* A step in which an upload is rejected for its type or size, or in which
\* the store of a loaded file fails.
UploadRefused ==
    \/ \E file \in UploadFiles : (WrongType(file) \/ TooLarge(file)) /\ HandleFileUpload(file)
    \/ \E r \in BagToSet(readers) : ReaderLoad(r, FALSE)
    \/ \E r \in BagToSet(readers) : ~storageOk /\ ReaderLoad(r, TRUE)

\* A refused upload sets uploadError and leaves the rest of App's state as it was.
RefusedSetsErrorOnly ==
    UploadRefused =>
        /\ uploadError' # NoUploadError
        /\ UNCHANGED <<musicSrc, stored, isMusicPlaying, audioError, storageOk, plays,
                       isSettingsOpen, text, regexPattern, flags, hlVars, genVars, noted,
                       storeVars>>

\* C22: after any uploads and resets, musicSrc is the value stored under
\* custom_bg_music when one is stored and the default music URL otherwise;
\* a rejected upload or a failed store only sets uploadError.
C22_MusicSrcMirrorsStorage == []MusicSrcIsStored /\ [][RefusedSetsErrorOnly]_vars

\* An upload was accepted and stored, and a later store failed.
C22_Witness ==
    /\ stored = "data:f2"
    /\ musicSrc = "data:f2"
    /\ uploadError = QuotaMsg
    /\ isMusicPlaying

============================================================================
